---- MODULE Spec2Model ----
(***************************************************************************)
(* A model of tinydb/__init__.py: the TinyDB facade (storage handle,       *)
(* class-level table registry, whole-snapshot read/write) and the Table    *)
(* (identifier counter, query cache, insert/remove/purge/search/all).      *)
(* Storage backends (tinydb.storages) and conditions (tinydb.queries) are  *)
(* collaborators of the module and are modelled by their contracts.        *)
(***************************************************************************)
EXTENDS Integers, Sequences, FiniteSets, TLC

\* ------------------------------------------------------------------ bounds
MaxId  == 3          \* inserts are explored while the counter is below this
MaxLen == 2          \* inserts are explored while the list is shorter than this
MaxTables == 2       \* restarts are explored while fewer Tables than this were made

DBs   == {"A", "B"}                 \* TinyDB instances
Procs == {"P", "Q"}                 \* processes (interpreters)
Names == {"_default", "t"}          \* table names used by the client
Paths == {"p"}                      \* paths of JSON files
Datas == {0, 1}                     \* values of the field 'data'

\* ------------------------------------------------------------- documents
EmptyMap == [k \in {} |-> 0]

SetItem(m, k, v) == [x \in DOMAIN m \cup {k} |-> IF x = k THEN v ELSE m[x]]

\* {'data': v}
Elem(v) == [f \in {"data"} |-> v]

\* {'data': v, '_id': i}
Doc(v, i) == [f \in {"data", "_id"} |-> IF f = "data" THEN v ELSE i]

Range(s) == {s[i] : i \in 1..Len(s)}

\* ------------------------------------------------------------ conditions
\* where(key) == val : a value object; the test is false on an absent field
Cond(k, v) == [key |-> k, val |-> v]

Conds == {Cond("data", 0), Cond("data", 1), Cond("_id", 1)}

Eval(cond, e) == cond.key \in DOMAIN e /\ e[cond.key] = cond.val

\* the name `where` imported from tinydb.queries: a callable, never a condition
Where == [key |-> "where", val |-> -1]

\* --------------------------------------------------------------- storage
\* what a backend holds: read() raises ValueError (no data) or returns data
NoData == [raises |-> TRUE, data |-> EmptyMap]

Content(m) == [raises |-> FALSE, data |-> m]

\* a snapshot that is no mapping (a list, null): indexing it by a name raises
\* TypeError, whether to read or to assign
NotAMapping == [k \in {"<not a mapping>"} |-> <<>>]

IsMapping(snapshot) == snapshot # NotAMapping

None == [kind |-> "none", path |-> ""]

MemoryStorage == [kind |-> "memory", path |-> ""]

JSONStorage(p) == [kind |-> "json", path |-> p]

Storages == {MemoryStorage} \cup {JSONStorage(p) : p \in Paths}

VARIABLES
    files,         \* path -> content of the JSON file at that path
    memory,        \* TinyDB instance -> content of its MemoryStorage
    db_storage,    \* TinyDB instance -> its _storage (None: not constructed)
    db_proc,       \* TinyDB instance -> the process (interpreter) it lives in
    table_cache,   \* process -> TinyDB._table_cache (class attribute): name -> Table
    tables,        \* the Table objects, in order of construction
    handle,        \* TinyDB instance -> name -> Table the client got from table(name)
    born,          \* per Table: the list its backend held when it was constructed
    issued,        \* per Table: the identifiers its inserts stamped, in order
    pending,       \* TinyDB instance -> the insert it is in the middle of
    last           \* the operation performed last, its input and its result

vars == <<files, memory, db_storage, db_proc, table_cache, tables, handle,
          born, issued, pending, last>>

\* ------------------------------------------------------------ TinyDB I/O
\* self._storage.read() of instance d, given the backends mem and fs
StorageRead(mem, fs, st, d) ==
    IF st[d].kind = "memory" THEN mem[d] ELSE fs[st[d].path]

\* variant: the ValueError is answered with None instead of {}
ReadAllNone(content) == IF content.raises THEN NotAMapping ELSE content.data

\* `if not table`: None and the empty string both select the whole snapshot
Falsy(table) == table = ""

\* TinyDB._read(None): the snapshot, {} on ValueError
ReadAll(content) == IF content.raises THEN EmptyMap ELSE content.data

\* TinyDB._read(table), table a non-empty name: KeyError, TypeError -> []
DBRead(content, table) ==
    IF IsMapping(ReadAll(content)) /\ table \in DOMAIN ReadAll(content)
    THEN ReadAll(content)[table]
    ELSE <<>>

\* variant: a falsy (empty) values is taken for "nothing to write"
DBWriteSkipEmpty(content, values, table) ==
    IF values = <<>> THEN content
    ELSE Content(SetItem(ReadAll(content), table, values))

\* variant: the snapshot written holds the entry of table only
DBWriteOnlyTable(content, values, table) ==
    Content(SetItem(EmptyMap, table, values))

\* variant: values extend the stored list instead of replacing it
DBWriteExtend(content, values, table) ==
    Content(SetItem(ReadAll(content), table, DBRead(content, table) \o values))

\* TinyDB._write(values, table), table a non-empty name: read-modify-write;
\* current_data[table] = values raises TypeError on a snapshot that is no
\* mapping, and nothing is written
DBWrite(content, values, table) ==
    IF IsMapping(ReadAll(content))
    THEN Content(SetItem(ReadAll(content), table, values))
    ELSE content

\* the name an operation that writes a table is recorded under: its own, or
\* "raised" when TinyDB._write raises the TypeError
Outcome(op, content) == IF IsMapping(ReadAll(content)) THEN op ELSE "raised"

\* TinyDB._write(values): replace the snapshot
DBWriteAll(values) == Content(values)

\* ----------------------------------------------------------------- Table
\* Table.__init__: self._last_id = self._read().pop()['_id'], 0 on IndexError
SeedLastId(list) == IF Len(list) = 0 THEN 0 ELSE list[Len(list)]["_id"]

\* what list.pop() leaves of the list it is called on
PopLast(list) == IF Len(list) = 0 THEN list ELSE SubSeq(list, 1, Len(list) - 1)

\* Table(name, db), constructed when its backend holds list for name
NewTable(name, d, list) ==
    [name |-> name, db |-> d, last_id |-> SeedLastId(list),
     queries_cache |-> EmptyMap]

\* Table._read(): self._db._read(self.name)
TableRead(mem, fs, st, tbl) == DBRead(StorageRead(mem, fs, st, tbl.db), tbl.name)

\* Table.insert: self._last_id += 1; next_id = self._last_id
NextId(last_id) == last_id + 1

\* Table.insert: element['_id'] = next_id
Stamp(element, next_id) == SetItem(element, "_id", next_id)

\* variant: the list written holds the new element only
AppendedAlone(data, element) == <<element>>

\* Table.insert: data.append(element)
Appended(data, element) == Append(data, element)

\* variant: the cache is left as it is
ClearQueryCacheNot(cache) == cache

\* Table._clear_query_cache
ClearQueryCache(cache) == EmptyMap

\* variant: next_id is computed but never stored in self._last_id
InsertedCounterLost(tbl, next_id) ==
    [tbl EXCEPT !.queries_cache = ClearQueryCache(@)]

\* the Table after insert: the counter advanced, the cache cleared by _write
Inserted(tbl, next_id) ==
    [tbl EXCEPT !.last_id = next_id, !.queries_cache = ClearQueryCache(@)]

\* [e for e in self.all() if cond(e)]
Matching(all, cond) == SelectSeq(all, LAMBDA e : Eval(cond, e))

\* variant: documents are compared without their identifier
RemainingByData(all, to_remove) ==
    SelectSeq(all, LAMBDA e : \A i \in 1..Len(to_remove) : to_remove[i]["data"] # e["data"])

\* [e for e in self.all() if e not in to_remove]
Remaining(all, to_remove) == SelectSeq(all, LAMBDA e : e \notin Range(to_remove))

\* variant: the test looks for the key the results are stored under
CacheHitStored(cache, cond) == Where \in DOMAIN cache

\* Table.search: cond in self._queries_cache
CacheHit(cache, cond) == cond \in DOMAIN cache

\* the value of a function that ends without a return statement
Nothing == [f \in {"<None>"} |-> 0]

\* variant: the loop keeps the latest match instead of returning the first
GetResultLatest(all, cond) ==
    IF Len(Matching(all, cond)) = 0 THEN Nothing
    ELSE Matching(all, cond)[Len(Matching(all, cond))]

\* Table.get: the first el of self.all() with cond(el), else None
GetResult(all, cond) ==
    IF \E i \in 1..Len(all) : Eval(cond, all[i])
    THEN all[CHOOSE i \in 1..Len(all) :
                 /\ Eval(cond, all[i])
                 /\ \A j \in 1..(i - 1) : ~ Eval(cond, all[j])]
    ELSE Nothing

\* Table.search: the list returned
SearchResult(cache, all, cond) ==
    IF CacheHit(cache, cond) THEN cache[Where] ELSE Matching(all, cond)

\* Table.search: self._queries_cache afterwards
SearchCache(cache, all, cond) ==
    IF CacheHit(cache, cond) THEN cache
    ELSE SetItem(cache, Where, Matching(all, cond))

\* ------------------------------------------------------------- recording
\* op: the operation; db: the instance it was called on; tbl: the Table it
\* went to; arg: its input; res: its result; pre: the document list before
\* it; cache: the Table's query cache before it; held: the Table the client
\* held for (db, name) before a call of table(name)
Rec(op, d, t, arg, res, pre, cache, held) ==
    [op |-> op, db |-> d, tbl |-> t, arg |-> arg, res |-> res, pre |-> pre,
     cache |-> cache, held |-> held]

Start == Rec("init", "", 0, 0, 0, <<>>, EmptyMap, 0)

\* the instance whose backend operation r reads and writes
Backend(r) == IF r.op = "table" \/ r.tbl = 0 THEN r.db ELSE tables[r.tbl].db

\* what that backend holds when r starts (nothing before it is constructed)
Before(r) ==
    IF db_storage[Backend(r)] = None THEN NoData
    ELSE StorageRead(memory, files, db_storage, Backend(r))

\* a mutation is recorded alone, an observation with the operation before it
Note(r) == [now |-> r, prev |-> Start, was |-> Before(r)]

NoteAfter(r) == [now |-> r, prev |-> last.now, was |-> Before(r)]

\* no insert under way
Idle ==
    [pc |-> "idle", tbl |-> 0, arg |-> 0, all |-> <<>>, data |-> <<>>,
     current_data |-> EmptyMap]

\* ------------------------------------------------------------------ Init
Init ==
    /\ pending = [d \in DBs |-> Idle]
    /\ files = [p \in Paths |-> NoData]
    /\ memory = [d \in DBs |-> NoData]
    /\ db_storage = [d \in DBs |-> None]
    /\ db_proc = [d \in DBs |-> "P"]
    /\ table_cache = [p \in Procs |-> EmptyMap]
    /\ tables = <<>>
    /\ handle = [d \in DBs |-> [n \in Names |-> 0]]
    /\ born = <<>>
    /\ issued = <<>>
    /\ last = [now |-> Start, prev |-> Start, was |-> NoData]

\* two interpreters, one TinyDB instance in each
InitWriters ==
    /\ files = [p \in Paths |-> NoData]
    /\ memory = [d \in DBs |-> NoData]
    /\ db_storage = [d \in DBs |-> None]
    /\ db_proc = [d \in DBs |-> IF d = "A" THEN "P" ELSE "Q"]
    /\ table_cache = [p \in Procs |-> EmptyMap]
    /\ tables = <<>>
    /\ handle = [d \in DBs |-> [n \in Names |-> 0]]
    /\ born = <<>>
    /\ issued = <<>>
    /\ pending = [d \in DBs |-> Idle]
    /\ last = [now |-> Start, prev |-> Start, was |-> NoData]

\* --------------------------------------------------------------- actions
\* self._storage.write(content) of instance d
StorageWrite(d, content) ==
    IF db_storage[d].kind = "memory"
    THEN /\ memory' = [memory EXCEPT ![d] = content]
         /\ UNCHANGED files
    ELSE /\ files' = [files EXCEPT ![db_storage[d].path] = content]
         /\ UNCHANGED memory

\* TinyDB.table(name) on instance d whose storage is st and holds content:
\* a lookup in the class-level registry of d's process, else a new Table,
\* whose constructor pops the last document off the list that read() returned
\* (the stored list itself when the backend is a MemoryStorage).
TableOf(d, name, st, content) ==
    LET p    == db_proc[d]
        list == DBRead(content, name)
        new  == Len(tables) + 1
    IN  IF Falsy(name) /\ name \notin DOMAIN table_cache[p]
        THEN \* Table.__init__ gets the whole snapshot from _read and calls
             \* pop() on it without a key: TypeError (AttributeError on a
             \* snapshot that is no mapping), no Table is made or registered
             /\ memory' = [memory EXCEPT ![d] =
                              IF st.kind = "memory" THEN content ELSE @]
             /\ last' = Note(Rec("raised", d, 0, name, FALSE, <<>>, EmptyMap, 0))
             /\ UNCHANGED <<table_cache, tables, handle, born, issued>>
        ELSE IF name \in DOMAIN table_cache[p]
        THEN /\ handle' = [handle EXCEPT ![d][name] = table_cache[p][name]]
             /\ memory' = [memory EXCEPT ![d] =
                              IF st.kind = "memory" THEN content ELSE @]
             /\ last' = Note(Rec("table", d, table_cache[p][name], name, FALSE, list,
                                 EmptyMap, handle[d][name]))
             /\ UNCHANGED <<table_cache, tables, born, issued>>
        ELSE /\ tables' = Append(tables, NewTable(name, d, list))
             /\ table_cache' = [table_cache EXCEPT ![p] = SetItem(@, name, new)]
             /\ handle' = [handle EXCEPT ![d][name] = new]
             /\ born' = Append(born, list)
             /\ issued' = Append(issued, <<>>)
             /\ memory' = [memory EXCEPT ![d] =
                              IF st.kind # "memory" THEN @
                              ELSE IF IsMapping(ReadAll(content)) /\ name \in DOMAIN ReadAll(content)
                                   THEN Content(SetItem(content.data, name, PopLast(list)))
                                   ELSE content]
             /\ last' = Note(Rec("table", d, new, name, TRUE, list, EmptyMap,
                                 handle[d][name]))

\* TinyDB(storage=st): a new storage object, then self.table('_default')
NewDB(d, st) ==
    /\ db_storage[d] = None
    /\ db_storage' = [db_storage EXCEPT ![d] = st]
    /\ TableOf(d, "_default", st, IF st.kind = "memory" THEN NoData ELSE files[st.path])
    /\ UNCHANGED <<pending, files, db_proc>>

\* db.table(name)
TableCall(d, name) ==
    /\ db_storage[d] # None
    /\ TableOf(d, name, db_storage[d], StorageRead(memory, files, db_storage, d))
    /\ UNCHANGED <<pending, files, db_storage, db_proc>>

\* table.insert(element), table the one the client got from d.table(n)
Insert(d, n, element) ==
    /\ handle[d][n] # 0
    /\ LET t       == handle[d][n]
           tbl     == tables[t]
           next_id == NextId(tbl.last_id)
           all     == TableRead(memory, files, db_storage, tbl)
           data    == Appended(all, Stamp(element, next_id))
       IN  /\ tbl.last_id < MaxId
           /\ Len(all) < MaxLen
           /\ tables' = [tables EXCEPT ![t] = Inserted(tbl, next_id)]
           /\ StorageWrite(tbl.db, DBWrite(StorageRead(memory, files, db_storage, tbl.db),
                                           data, tbl.name))
           /\ issued' = [issued EXCEPT ![t] = Append(@, next_id)]
           /\ last' = Note(Rec(Outcome("insert", StorageRead(memory, files, db_storage, tbl.db)),
                               d, t, element, Stamp(element, next_id), all,
                               tbl.queries_cache, t))
    /\ UNCHANGED <<pending, db_storage, db_proc, table_cache, handle, born>>

\* table.insert(element) as another process sees it, first step: the counter
\* advances, the element is stamped, data = self._read() reads the backend,
\* data.append(element)
InsertBegin(d, n, element) ==
    /\ handle[d][n] # 0
    /\ pending[d].pc = "idle"
    /\ LET t       == handle[d][n]
           tbl     == tables[t]
           next_id == NextId(tbl.last_id)
           all     == TableRead(memory, files, db_storage, tbl)
       IN  /\ tbl.last_id < MaxId
           /\ Len(all) < MaxLen
           /\ tables' = [tables EXCEPT ![t].last_id = next_id]
           /\ issued' = [issued EXCEPT ![t] = Append(@, next_id)]
           /\ pending' = [pending EXCEPT ![d] =
                              [pc |-> "merge", tbl |-> t, arg |-> element,
                               all |-> all,
                               data |-> Appended(all, Stamp(element, next_id)),
                               current_data |-> EmptyMap]]
    /\ UNCHANGED <<files, memory, db_storage, db_proc, table_cache, handle,
                   born, last>>

\* second step, Table._write and TinyDB._write: the cache is cleared,
\* current_data = self._read() reads the backend again and
\* current_data[table] = values (TypeError on a snapshot that is no mapping)
InsertMerge(d) ==
    /\ pending[d].pc = "merge"
    /\ LET t       == pending[d].tbl
           tbl     == tables[t]
           content == StorageRead(memory, files, db_storage, tbl.db)
       IN  /\ tables' = [tables EXCEPT ![t].queries_cache = ClearQueryCache(@)]
           /\ IF IsMapping(ReadAll(content))
              THEN /\ pending' = [pending EXCEPT ![d].pc = "store",
                                     ![d].current_data =
                                         DBWrite(content, pending[d].data, tbl.name).data]
                   /\ UNCHANGED last
              ELSE /\ pending' = [pending EXCEPT ![d] = Idle]
                   /\ last' = Note(Rec("raised", d, t, pending[d].arg, 0, <<>>,
                                       EmptyMap, t))
    /\ UNCHANGED <<files, memory, db_storage, db_proc, table_cache, handle,
                   born, issued>>

\* last step: self._storage.write(current_data), and insert returns
InsertStore(d) ==
    /\ pending[d].pc = "store"
    /\ LET t    == pending[d].tbl
           tbl  == tables[t]
       IN  /\ StorageWrite(tbl.db, DBWriteAll(pending[d].current_data))
           /\ last' = Note(Rec("insert", d, t, pending[d].arg,
                               Stamp(pending[d].arg, tbl.last_id),
                               pending[d].all, EmptyMap, t))
    /\ pending' = [pending EXCEPT ![d] = Idle]
    /\ UNCHANGED <<db_storage, db_proc, table_cache, tables, handle, born, issued>>

\* table.remove(cond)
Remove(d, n, cond) ==
    /\ handle[d][n] # 0
    /\ LET t         == handle[d][n]
           tbl       == tables[t]
           all       == TableRead(memory, files, db_storage, tbl)
           to_remove == SearchResult(tbl.queries_cache, all, cond)
           searched  == SearchCache(tbl.queries_cache, all, cond)
       IN  /\ tables' = [tables EXCEPT ![t].queries_cache = ClearQueryCache(searched)]
           /\ StorageWrite(tbl.db, DBWrite(StorageRead(memory, files, db_storage, tbl.db),
                                           Remaining(all, to_remove), tbl.name))
           /\ last' = Note(Rec(Outcome("remove", StorageRead(memory, files, db_storage, tbl.db)),
                               d, t, cond, to_remove, all,
                               tbl.queries_cache, t))
    /\ UNCHANGED <<pending, db_storage, db_proc, table_cache, handle, born, issued>>

\* table.purge()
Purge(d, n) ==
    /\ handle[d][n] # 0
    /\ LET t   == handle[d][n]
           tbl == tables[t]
       IN  /\ tables' = [tables EXCEPT ![t].queries_cache = ClearQueryCache(@)]
           /\ StorageWrite(tbl.db, DBWrite(StorageRead(memory, files, db_storage, tbl.db),
                                           <<>>, tbl.name))
           /\ last' = Note(Rec(Outcome("purge", StorageRead(memory, files, db_storage, tbl.db)),
                               d, t, 0, 0,
                               TableRead(memory, files, db_storage, tbl),
                               tbl.queries_cache, t))
    /\ UNCHANGED <<pending, db_storage, db_proc, table_cache, handle, born, issued>>

\* table.search(cond)
Search(d, n, cond) ==
    /\ handle[d][n] # 0
    /\ LET t   == handle[d][n]
           tbl == tables[t]
           all == TableRead(memory, files, db_storage, tbl)
       IN  /\ tables' = [tables EXCEPT ![t].queries_cache =
                                           SearchCache(@, all, cond)]
           /\ last' = NoteAfter(Rec("search", d, t, cond,
                               SearchResult(tbl.queries_cache, all, cond), all,
                               tbl.queries_cache, t))
    /\ UNCHANGED <<pending, files, memory, db_storage, db_proc, table_cache, handle,
                   born, issued>>

\* table.get(cond)
Get(d, n, cond) ==
    /\ handle[d][n] # 0
    /\ LET t   == handle[d][n]
           all == TableRead(memory, files, db_storage, tables[t])
       IN  last' = NoteAfter(Rec("get", d, t, cond, GetResult(all, cond), all,
                                tables[t].queries_cache, t))
    /\ UNCHANGED <<pending, files, memory, db_storage, db_proc, table_cache, tables,
                   handle, born, issued>>

\* table.all()
All(d, n) ==
    /\ handle[d][n] # 0
    /\ LET t   == handle[d][n]
           all == TableRead(memory, files, db_storage, tables[t])
       IN  last' = NoteAfter(Rec("all", d, t, 0, all, all,
                                tables[t].queries_cache, t))
    /\ UNCHANGED <<pending, files, memory, db_storage, db_proc, table_cache, tables,
                   handle, born, issued>>

\* db.purge_all()
PurgeAll(d) ==
    /\ db_storage[d] # None
    /\ StorageWrite(d, DBWriteAll(EmptyMap))
    /\ last' = Note(Rec("purge_all", d, 0, 0, 0, <<>>, EmptyMap, 0))
    /\ UNCHANGED <<pending, db_storage, db_proc, table_cache, tables, handle,
                   born, issued>>

\* db._write(values, name)
FacadeWrite(d, values, name) ==
    /\ db_storage[d] # None
    /\ StorageWrite(d, DBWrite(StorageRead(memory, files, db_storage, d), values, name))
    /\ last' = Note(Rec(Outcome("write", StorageRead(memory, files, db_storage, d)),
                        d, 0, <<name, values>>, 0, <<>>, EmptyMap, 0))
    /\ UNCHANGED <<pending, db_storage, db_proc, table_cache, tables, handle,
                   born, issued>>

\* db._write(snapshot)
FacadeWriteAll(d, snapshot) ==
    /\ db_storage[d] # None
    /\ StorageWrite(d, DBWriteAll(snapshot))
    /\ last' = Note(Rec("write_all", d, 0, snapshot, 0, <<>>, EmptyMap, 0))
    /\ UNCHANGED <<pending, db_storage, db_proc, table_cache, tables, handle,
                   born, issued>>

\* db._read()
FacadeReadAll(d) ==
    /\ db_storage[d] # None
    /\ last' = NoteAfter(Rec("read_all", d, 0, 0,
                             ReadAll(StorageRead(memory, files, db_storage, d)),
                             <<>>, EmptyMap, 0))
    /\ UNCHANGED <<pending, files, memory, db_storage, db_proc, table_cache, tables,
                   handle, born, issued>>

\* db._read(name)
FacadeRead(d, name) ==
    /\ db_storage[d] # None
    /\ last' = NoteAfter(Rec("read", d, 0, name,
                        DBRead(StorageRead(memory, files, db_storage, d), name),
                             <<>>, EmptyMap, 0))
    /\ UNCHANGED <<pending, files, memory, db_storage, db_proc, table_cache, tables,
                   handle, born, issued>>

\* the process ends and a new one starts: every object in memory is gone
\* (TinyDB instances, their MemoryStorages, the registry, the Tables, whose
\* records stay behind as history); the JSON files remain
Restart ==
    /\ \E d \in DBs : db_storage[d] # None
    /\ Len(tables) < MaxTables
    /\ db_storage' = [d \in DBs |-> None]
    /\ memory' = [d \in DBs |-> NoData]
    /\ table_cache' = [p \in Procs |-> EmptyMap]
    /\ handle' = [d \in DBs |-> [n \in Names |-> 0]]
    /\ last' = [now |-> Rec("restart", "", 0, 0, 0, <<>>, EmptyMap, 0),
                prev |-> Start, was |-> NoData]
    /\ UNCHANGED <<pending, files, db_proc, tables, born, issued>>

\* ---------------------------------------------------------------- inputs
\* elements handed to insert: without and with the reserved field
Elements == {Elem(v) : v \in Datas} \cup {Doc(1, 2)}

\* document lists handed to the facade's write
Lists == {<<>>, <<Doc(0, 1)>>, <<Doc(0, 2), Doc(1, 1)>>}

\* snapshots handed to the facade's write
Snapshots ==
    {[n \in {"t"} |-> <<Doc(1, 1), Doc(0, 2)>>],
     [n \in Names |-> IF n = "t" THEN <<Doc(0, 2), Doc(1, 1)>> ELSE <<Doc(1, 1)>>]}

\* -------------------------------- one Database, the default table's engine
Next ==
    \/ \E st \in Storages : NewDB("A", st)
    \/ \E e \in Elements : Insert("A", "_default", e)
    \/ \E c \in Conds : Remove("A", "_default", c)
    \/ Purge("A", "_default")
    \/ \E c \in Conds : Search("A", "_default", c)
    \/ All("A", "_default")
    \/ \E c \in Conds : Get("A", "_default", c)
    \/ PurgeAll("A")

Spec == Init /\ [][Next]_vars

\* ------------------- one Database, its facade and the construction of Tables
NextFacade ==
    \/ \E st \in Storages : NewDB("A", st)
    \/ \E n \in Names \cup {""} : TableCall("A", n)
    \/ \E n \in Names, l \in Lists : FacadeWrite("A", l, n)
    \/ \E s \in Snapshots \cup {NotAMapping} : FacadeWriteAll("A", s)
    \/ FacadeReadAll("A")
    \/ \E n \in Names : FacadeRead("A", n)
    \/ \E n \in Names : Insert("A", n, Elem(0))

SpecFacade == Init /\ [][NextFacade]_vars

\* ------------------------------------------- one Database, two Tables
NextTables ==
    \/ \E st \in Storages : NewDB("A", st)
    \/ \E n \in Names \cup {""} : TableCall("A", n)
    \/ \E n \in Names : Insert("A", n, Elem(0))
    \/ \E n \in Names : Remove("A", n, Cond("_id", 1))
    \/ \E n \in Names : Purge("A", n)
    \/ \E n \in Names : Search("A", n, Cond("data", 0))
    \/ PurgeAll("A")

SpecTables == Init /\ [][NextTables]_vars

\* ------------------------------------------- two Databases in one process
NextWriters ==
    \/ \E d \in DBs : NewDB(d, JSONStorage("p"))
    \/ \E d \in DBs : \E v \in Datas : InsertBegin(d, "_default", Elem(v))
    \/ \E d \in DBs : InsertMerge(d)
    \/ \E d \in DBs : InsertStore(d)

SpecWriters == InitWriters /\ [][NextWriters]_vars

NextDBs ==
    \/ \E d \in DBs, st \in Storages : NewDB(d, st)
    \/ \E d \in DBs, n \in Names : TableCall(d, n)
    \/ \E d \in DBs, v \in Datas : Insert(d, "_default", Elem(v))
    \/ \E d \in DBs : Search(d, "_default", Cond("data", 0))
    \/ \E d \in DBs : Purge(d, "_default")
    \/ \E d \in DBs : PurgeAll(d)

SpecDBs == Init /\ [][NextDBs]_vars

\* --------------------- one Database over a JSON file, across restarts
NextRestart ==
    \/ NewDB("A", JSONStorage("p"))
    \/ \E v \in Datas : Insert("A", "_default", Elem(v))
    \/ \E c \in Conds : Remove("A", "_default", c)
    \/ Purge("A", "_default")
    \/ Restart

SpecRestart == Init /\ [][NextRestart]_vars

\* ================================================================ claims
Mutations == {"insert", "remove", "purge"}

\* the list a Table reads now
Current(t) == TableRead(memory, files, db_storage, tables[t])

\* the identifier stamped by the latest insert of Table t
Newest(t) == issued[t][Len(issued[t])]

\* C1: a Table constructed on an empty backend stamps 1, 2, 3, ... on its
\* successive inserts, whatever removals and purges come between them.
C1_IdsCountUp ==
    \A t \in 1..Len(tables) :
        born[t] = <<>> => \A i \in 1..Len(issued[t]) : issued[t][i] = i

\* three inserts, the third into a list that removals had shortened
C1_Witness ==
    /\ last.now.op = "insert"
    /\ born[last.now.tbl] = <<>>
    /\ Len(issued[last.now.tbl]) >= 3
    /\ Len(last.now.pre) <= 1

\* C2: insert(d), d without identifier, leaves the list equal to the list
\* before followed by d with its new identifier, and a search made right
\* after it, for a condition that d satisfies, returns a list containing d.
C2_InsertAppendsAndIsFound ==
    /\ (last.now.op = "insert" /\ "_id" \notin DOMAIN last.now.arg) =>
          Current(last.now.tbl) =
              Append(last.now.pre, Doc(last.now.arg["data"], Newest(last.now.tbl)))
    /\ (/\ last.now.op = "search"
        /\ last.prev.op = "insert"
        /\ last.prev.tbl = last.now.tbl
        /\ "_id" \notin DOMAIN last.prev.arg
        /\ Eval(last.now.arg, Doc(last.prev.arg["data"], Newest(last.now.tbl)))) =>
          Doc(last.prev.arg["data"], Newest(last.now.tbl)) \in Range(last.now.res)

\* a matching search right after an insert into a non-empty list
C2_Witness ==
    /\ last.now.op = "search"
    /\ last.prev.op = "insert"
    /\ "_id" \notin DOMAIN last.prev.arg
    /\ Len(last.prev.pre) >= 1
    /\ Eval(last.now.arg, last.prev.res)
    /\ last.prev.res \in Range(last.now.res)

\* C3: a search returns exactly the documents of the current list that
\* satisfy its condition, in list order, never a result computed earlier.
C3_SearchIsFresh ==
    last.now.op = "search" =>
        last.now.res = SelectSeq(Current(last.now.tbl),
                                 LAMBDA e : Eval(last.now.arg, e))

\* a search right after a mutation that found a cached result, which differs
\* from what the search returns
C3_Witness ==
    /\ last.now.op = "search"
    /\ last.prev.op \in Mutations
    /\ Where \in DOMAIN last.prev.cache
    /\ last.prev.cache[Where] # last.now.res

\* C4: remove(cond) deletes exactly the documents equal, identifier included,
\* to a document satisfying cond, and keeps the others in their order.
C4_RemoveExact ==
    last.now.op = "remove" =>
        Current(last.now.tbl) =
            SelectSeq(last.now.pre,
                      LAMBDA e : ~ \E i \in 1..Len(last.now.pre) :
                                      /\ Eval(last.now.arg, last.now.pre[i])
                                      /\ last.now.pre[i] = e)

\* of two documents with the same data, one was removed and one kept
C4_Witness ==
    /\ last.now.op = "remove"
    /\ Len(last.now.pre) = 2
    /\ last.now.pre[1]["data"] = last.now.pre[2]["data"]
    /\ Len(Current(last.now.tbl)) = 1

\* C5: insert of a document that carries '_id' is rejected: the backends,
\* the counter and the cache are as before and no document is added.
C5_InsertWithIdRejected ==
    [][(last'.now.op = "insert" /\ "_id" \in DOMAIN last'.now.arg) =>
           (files' = files /\ memory' = memory /\ tables' = tables)]_vars

\* the largest identifier in a document list, 0 for the empty list
MaxStored(list) ==
    IF Len(list) = 0 THEN 0
    ELSE CHOOSE m \in {list[i]["_id"] : i \in 1..Len(list)} :
             \A i \in 1..Len(list) : list[i]["_id"] <= m

\* C6: a Table constructed over stored documents, in any order, starts its
\* counter at the largest stored identifier, and the first insert into the
\* documents it was constructed over stamps an identifier none of them has.
C6_SeedIsMax ==
    /\ (last.now.op = "table" /\ last.now.res) =>
          tables[last.now.tbl].last_id = MaxStored(last.now.pre)
    /\ (/\ last.now.op = "insert"
        /\ Len(issued[last.now.tbl]) = 1
        /\ Range(last.now.pre) \subseteq Range(born[last.now.tbl])) =>
          \A i \in 1..Len(last.now.pre) :
              last.now.pre[i]["_id"] # Newest(last.now.tbl)

\* C7: for no name do two Database instances hold the same Table, and the
\* Table each holds is bound to the instance it was requested from.
C7_NoSharedTables ==
    \A n \in Names : \A a \in DBs : \A b \in DBs \ {a} :
        (handle[a][n] # 0 /\ handle[b][n] # 0) =>
            /\ handle[a][n] # handle[b][n]
            /\ tables[handle[a][n]].db = a

\* C8: on one Database the first table(name) constructs a Table bound to it,
\* and every later table(name) returns that Table, all Tables left as they are.
C8_LookupOrCreate ==
    [][\A d \in DBs : \A n \in Names :
          (last'.now.op = "table" /\ last'.now.db = d /\ last'.now.arg = n) =>
              IF handle[d][n] = 0
              THEN /\ Len(tables') = Len(tables) + 1
                   /\ handle'[d][n] = Len(tables')
                   /\ tables'[handle'[d][n]].db = d
              ELSE /\ handle'[d][n] = handle[d][n]
                   /\ tables' = tables]_vars

\* C9: all() right after purge() is empty, and so is any search.
C9_PurgeEmpties ==
    (/\ last.now.op \in {"all", "search"}
     /\ last.prev.op = "purge"
     /\ last.prev.tbl = last.now.tbl) => last.now.res = <<>>

\* all() right after the purge of a table that held documents
C9_Witness ==
    /\ last.now.op = "all"
    /\ last.prev.op = "purge"
    /\ last.prev.tbl = last.now.tbl
    /\ Len(last.prev.pre) >= 1

\* C10: read(name) right after write(S) returns S[name] for every name of S,
\* and read(name) right after write(values, name) returns values.
C10_RoundTrip ==
    last.now.op = "read" =>
        /\ (/\ last.prev.op = "write_all"
            /\ last.prev.db = last.now.db
            /\ last.now.arg \in DOMAIN last.prev.arg) =>
              last.now.res = last.prev.arg[last.now.arg]
        /\ (/\ last.prev.op = "write"
            /\ last.prev.db = last.now.db
            /\ last.prev.arg[1] = last.now.arg) =>
              last.now.res = last.prev.arg[2]

\* a read of two documents right after the write of a snapshot
C10_Witness ==
    /\ last.now.op = "read"
    /\ last.prev.op = "write_all"
    /\ last.now.arg \in DOMAIN last.prev.arg
    /\ Len(last.now.res) = 2

\* what the backend of the instance of the last operation holds now
Held == StorageRead(memory, files, db_storage, Backend(last.now))

\* C11: read() is the empty mapping when the backend's read raises the decode
\* error; read(name) is the empty list when the backend raises, holds no
\* mapping or holds no entry for name; and an insert into a table whose
\* backend raises the decode error completes and leaves the snapshot
\* {name: [the document with identifier 1]}.
C11_ReadNeverFails ==
    /\ (last.now.op = "read_all" /\ Held.raises) => last.now.res = EmptyMap
    /\ (/\ last.now.op = "read"
        /\ \/ Held.raises
           \/ ~ IsMapping(Held.data)
           \/ last.now.arg \notin DOMAIN Held.data) => last.now.res = <<>>
    /\ (last.now.op \in {"insert", "raised"} /\ last.now.tbl # 0 /\ last.was.raises) =>
          /\ last.now.op = "insert"
          /\ Held = Content([n \in {tables[last.now.tbl].name} |->
                                <<Doc(last.now.arg["data"], 1)>>])

\* a first insert into a backend that raised the decode error
C11_Witness ==
    /\ last.now.op = "insert"
    /\ last.was.raises
    /\ Len(Current(last.now.tbl)) = 1

\* read(name) on a snapshot that is no mapping
C11_WitnessNoMapping ==
    /\ last.now.op = "read"
    /\ ~ Held.raises
    /\ ~ IsMapping(Held.data)

\* C12: get(cond) returns the first document of the current list that
\* satisfies cond, None when there is none, and changes neither the backends
\* nor any Table's counter or cache.
C12_GetFirst ==
    /\ [](last.now.op = "get" =>
            IF \E i \in 1..Len(Current(last.now.tbl)) :
                   Eval(last.now.arg, Current(last.now.tbl)[i])
            THEN \E i \in 1..Len(Current(last.now.tbl)) :
                     /\ last.now.res = Current(last.now.tbl)[i]
                     /\ Eval(last.now.arg, Current(last.now.tbl)[i])
                     /\ \A j \in 1..(i - 1) :
                            ~ Eval(last.now.arg, Current(last.now.tbl)[j])
            ELSE last.now.res = Nothing)
    /\ [][last'.now.op = "get" =>
              (files' = files /\ memory' = memory /\ tables' = tables)]_vars

\* a get that two documents satisfy
C12_Witness ==
    /\ last.now.op = "get"
    /\ Len(Matching(Current(last.now.tbl), last.now.arg)) = 2
    /\ last.now.res = Current(last.now.tbl)[1]

\* C13: the cache is keyed by the condition searched: after a search its
\* condition is a key of the cache with the result as value, and every key
\* of a cache is a condition whose value is what it selects from the list.
C13_CacheKeyedByCondition ==
    /\ last.now.op = "search" =>
          /\ last.now.arg \in DOMAIN tables[last.now.tbl].queries_cache
          /\ tables[last.now.tbl].queries_cache[last.now.arg] = last.now.res
    /\ \A t \in 1..Len(tables) : \A k \in DOMAIN tables[t].queries_cache :
          k \in Conds

\* the Tables ever made for the same name (in SpecRestart, over the same file)
SameTable(t, u) == tables[t].name = tables[u].name

\* C14 as stated: over the whole history of a table in a backend, restarts
\* included, no identifier is issued to two inserts.
C14_NeverReused ==
    \A t \in 1..Len(tables) : \A u \in 1..Len(tables) :
        \A i \in 1..Len(issued[t]) : \A j \in 1..Len(issued[u]) :
            (SameTable(t, u) /\ issued[t][i] = issued[u][j]) => (t = u /\ i = j)

\* C14 amended: the inserts of one Table instance get strictly increasing
\* identifiers, whatever is removed or purged between them.
C14_NoReuseByOneTable ==
    \A t \in 1..Len(tables) :
        \A i \in 1..Len(issued[t]) : \A j \in 1..Len(issued[t]) :
            i < j => issued[t][i] < issued[t][j]

\* after a restart, a Table seeded from stored documents has inserted twice,
\* the second time into a list that a removal had shortened
C14_Witness ==
    /\ last.now.op = "insert"
    /\ last.now.tbl >= 2
    /\ born[last.now.tbl] # <<>>
    /\ Len(issued[last.now.tbl]) >= 2
    /\ Len(last.now.pre) <= 1

C16_MutationClearsOwnCache ==
    /\ [](last.now.op \in Mutations =>
              DOMAIN tables[last.now.tbl].queries_cache = {})
    /\ [][last'.now.op \in Mutations =>
              /\ Len(tables') = Len(tables)
              /\ \A t \in 1..Len(tables) :
                     t # last'.now.tbl => tables'[t] = tables[t]]_vars

\* a remove on a Table with a cached result, while another Table has one too
C16_Witness ==
    /\ last.now.op = "remove"
    /\ Where \in DOMAIN last.now.cache
    /\ \E t \in 1..Len(tables) :
          t # last.now.tbl /\ Where \in DOMAIN tables[t].queries_cache

\* C17: after purge_all the snapshot is the empty mapping, every Table of
\* the Database reads the empty list, and a search right after it returns
\* the empty list, whatever its Table had cached.
C17_PurgeAllEmpties ==
    /\ last.now.op = "purge_all" =>
          /\ Held = Content(EmptyMap)
          /\ \A t \in 1..Len(tables) :
                 tables[t].db = last.now.db => Current(t) = <<>>
    /\ (/\ last.now.op = "search"
        /\ last.prev.op = "purge_all"
        /\ tables[last.now.tbl].db = last.prev.db) => last.now.res = <<>>

\* a search right after purge_all on a Table that had cached documents
C17_Witness ==
    /\ last.now.op = "search"
    /\ last.prev.op = "purge_all"
    /\ Where \in DOMAIN last.now.cache
    /\ Len(last.now.cache[Where]) >= 1

\* two stored documents of a list carry one identifier
DuplicateIds(list) ==
    \E i \in 1..Len(list) : \E j \in 1..Len(list) :
        i # j /\ list[i]["_id"] = list[j]["_id"]

\* a document that was stored when the last write started is stored no more
LostDocument ==
    \E e \in Range(DBRead(last.was, tables[last.now.tbl].name)) :
        e \notin Range(Current(last.now.tbl))

\* C18: two writers in two processes insert into one table of one backend.
\* Each stamps from its own counter and writes back the list it read with
\* its document appended: an identifier stored twice was issued by both
\* writers, and a completed insert leaves exactly the list its writer read
\* plus its document, whatever the other writer stored in between. The
\* interleavings with a duplicate identifier and with a lost document are
\* the states of C18_Witness.
C18_WritersCollide ==
    /\ \A t \in 1..Len(tables) :
          \A i \in 1..Len(Current(t)) : \A j \in 1..Len(Current(t)) :
              (i # j /\ Current(t)[i]["_id"] = Current(t)[j]["_id"]) =>
                  \A u \in 1..Len(tables) :
                      Current(t)[i]["_id"] \in Range(issued[u])
    /\ last.now.op = "insert" =>
          /\ Current(last.now.tbl) = Append(last.now.pre, last.now.res)
          /\ last.now.res["_id"] \in Range(issued[last.now.tbl])

\* an insert has completed, the stored list holds one identifier twice, and
\* a document the other writer had stored is gone
C18_Witness ==
    /\ last.now.op = "insert"
    /\ Len(tables) = 2
    /\ tables[1].db # tables[2].db
    /\ DuplicateIds(Current(last.now.tbl))
    /\ LostDocument

\* the instances are constructed over different backends: not one JSON file
Apart(a, b) ==
    /\ db_storage[a] # None
    /\ db_storage[b] # None
    /\ db_storage[a].kind = "memory" \/ db_storage[a] # db_storage[b]

\* C19: with A constructed before B over another backend, an insert or purge
\* through a table obtained from B leaves A's snapshot as it was, and the
\* insert appends its document to the table's list in B's snapshot.
C19_OnlyOwnBackend ==
    [][(/\ last'.now.op \in Mutations
        /\ last'.now.db = "B"
        /\ Apart("A", "B")
        /\ tables[1].db = "A") =>
           /\ StorageRead(memory', files', db_storage', "A")
                  = StorageRead(memory, files, db_storage, "A")
           /\ last'.now.op = "insert" =>
                  DBRead(StorageRead(memory', files', db_storage', "B"),
                         tables[last'.now.tbl].name)
                      = Append(DBRead(StorageRead(memory, files, db_storage, "B"),
                                      tables[last'.now.tbl].name),
                               last'.now.res)]_vars

\* C20: a call of table(name) that constructs the Table leaves the snapshot
\* as it was, and the Table then reads every document that was stored for
\* name, the last one included.
C20_TableCreationOnlyReads ==
    (last.now.op = "table" /\ last.now.res = TRUE) =>
        /\ Held = last.was
        /\ Current(last.now.tbl) = last.now.pre

====
